---------------------------- MODULE Spec2Model ----------------------------
(***************************************************************************)
(* Model of src/strategy6.py: VolatilitySpreadMaker, a hummingbot script   *)
(* strategy that quotes a bid and an ask around the mid price with an      *)
(* ATR-scaled spread and refreshes its two orders every                    *)
(* order_refresh_time seconds.                                             *)
(*                                                                         *)
(* Python values are modelled with their run-time type, because the code   *)
(* mixes decimal.Decimal and float and the two do not combine under        *)
(* arithmetic.  A number is an exact rational n/d in lowest terms: binary  *)
(* float rounding and Decimal's 28-digit context rounding are not          *)
(* modelled, so every numeric statement below is about exact arithmetic.   *)
(***************************************************************************)
EXTENDS Integers, Sequences, FiniteSets, TLC

VARIABLES
    cfg,                \* class attributes atr_multiplier, min_spread, max_spread
    current_timestamp,  \* ScriptStrategyBase.current_timestamp (host clock)
    create_timestamp,   \* earliest time of the next refresh cycle
    candles_ready,      \* self.candles.ready when last read
    mid_price,          \* what get_price_by_type returned when last read
    atr,                \* last row of the ATR_30 column when last read
    active_orders,      \* what get_active_orders(exchange) returns
    tick_no,            \* number of on_tick calls made so far
    outcome,            \* how the last on_tick call ended
    calls,              \* host calls made by the last on_tick call, in order
    dynamic_spread,     \* spread computed by the last create_proposal
    proposal,           \* list returned by the last create_proposal
    adjusted,           \* list returned by the last adjust_proposal_to_budget
    place_times         \* timestamps of the ticks that submitted orders

vars == <<cfg, current_timestamp, create_timestamp, candles_ready,
          mid_price, atr, active_orders, tick_no, outcome, calls,
          dynamic_spread, proposal, adjusted, place_times>>

(***************************************************************************)
(* Bounds of the model.                                                    *)
(***************************************************************************)
MaxTicks == 3

(***************************************************************************)
(* Program constants.                                                      *)
(***************************************************************************)
order_refresh_time == 15

-----------------------------------------------------------------------------
(***************************************************************************)
(* Exact rationals <<n, d>>, d > 0, in lowest terms.                       *)
(***************************************************************************)
Abs(x) == IF x < 0 THEN -x ELSE x

RECURSIVE GCD(_, _)
GCD(a, b) == IF b = 0 THEN a ELSE GCD(b, a % b)

Rat(n, d) == LET g == GCD(Abs(n), d) IN <<n \div g, d \div g>>

RatLess(p, q) == p[1] * q[2] < q[1] * p[2]
RatLeq(p, q)  == p[1] * q[2] <= q[1] * p[2]
RatAdd(p, q)  == Rat(p[1] * q[2] + q[1] * p[2], p[2] * q[2])
RatSub(p, q)  == Rat(p[1] * q[2] - q[1] * p[2], p[2] * q[2])
RatMul(p, q)  == Rat(p[1] * q[1], p[2] * q[2])
RatDiv(p, q)  == IF q[1] < 0 THEN Rat(-(p[1] * q[2]), p[2] * (-q[1]))
                 ELSE Rat(p[1] * q[2], p[2] * q[1])

(***************************************************************************)
(* Python values: a number of type int, float or Decimal (possibly NaN),   *)
(* None, or a raised exception that the enclosing expression propagates.   *)
(***************************************************************************)
Num(ty, n, d) == [ty |-> ty, exc |-> "", nan |-> FALSE, q |-> Rat(n, d)]
NaN(ty)       == [ty |-> ty, exc |-> "", nan |-> TRUE, q |-> <<0, 1>>]
None          == [ty |-> "NoneType", exc |-> "", nan |-> FALSE, q |-> <<0, 1>>]
Raise(e)      == [ty |-> "raise", exc |-> e, nan |-> FALSE, q |-> <<0, 1>>]

IsRaise(v)  == v.ty = "raise"
IsNumber(v) == v.ty \in {"int", "float", "Decimal"}

\* Decimal and float do not mix under arithmetic; int combines with both.
Mixed(a, b) == {a.ty, b.ty} = {"Decimal", "float"}
ResultType(a, b) == IF a.ty = "int" THEN b.ty ELSE a.ty

\* q is the exact result on the operands' values.
PyArith(a, b, q) ==
    IF IsRaise(a) THEN a
    ELSE IF IsRaise(b) THEN b
    ELSE IF ~IsNumber(a) \/ ~IsNumber(b) \/ Mixed(a, b) THEN Raise("TypeError")
    ELSE IF a.nan \/ b.nan THEN NaN(ResultType(a, b))
    ELSE [ty |-> ResultType(a, b), exc |-> "", nan |-> FALSE, q |-> q]

PyMul(a, b) == PyArith(a, b, RatMul(a.q, b.q))
PyAdd(a, b) == PyArith(a, b, RatAdd(a.q, b.q))
PySub(a, b) == PyArith(a, b, RatSub(a.q, b.q))

PyDiv(a, b) ==
    IF IsRaise(a) THEN a
    ELSE IF IsRaise(b) THEN b
    ELSE IF ~IsNumber(a) \/ ~IsNumber(b) \/ Mixed(a, b) THEN Raise("TypeError")
    ELSE IF a.nan \/ b.nan THEN NaN(ResultType(a, b))
    ELSE IF b.q[1] = 0
         THEN IF ResultType(a, b) = "Decimal"
              THEN IF a.q[1] = 0 THEN Raise("InvalidOperation")
                   ELSE Raise("DivisionByZero")
              ELSE Raise("ZeroDivisionError")
    ELSE [ty |-> ResultType(a, b), exc |-> "", nan |-> FALSE, q |-> RatDiv(a.q, b.q)]

\* Decimal(x): exact conversion of an int or a float; NaN stays NaN.
PyDecimal(x) ==
    IF IsRaise(x) THEN x
    ELSE IF ~IsNumber(x) THEN Raise("TypeError")
    ELSE [x EXCEPT !.ty = "Decimal"]

(***************************************************************************)
(* Ordering comparisons a < b and a <= b: "True", "False" or the name of   *)
(* the exception raised.  Decimal compares exactly with int and float; an  *)
(* ordering comparison that involves a Decimal signals InvalidOperation on *)
(* NaN, a comparison among floats with NaN is False.  holds is the exact   *)
(* comparison of the operands' values.                                     *)
(***************************************************************************)
PyCompare(a, b, holds) ==
    IF IsRaise(a) THEN a.exc
    ELSE IF IsRaise(b) THEN b.exc
    ELSE IF ~IsNumber(a) \/ ~IsNumber(b) THEN "TypeError"
    ELSE IF a.nan \/ b.nan
         THEN IF "Decimal" \in {a.ty, b.ty} THEN "InvalidOperation" ELSE "False"
    ELSE IF holds THEN "True" ELSE "False"

PyLess(a, b) == PyCompare(a, b, RatLess(a.q, b.q))
PyLeq(a, b)  == PyCompare(a, b, RatLeq(a.q, b.q))

\* max(a, b): b if b > a else a.    min(a, b): b if b < a else a.
PyMax(a, b) ==
    LET c == PyLess(a, b)
    IN  IF c = "True" THEN b ELSE IF c = "False" THEN a ELSE Raise(c)

PyMin(a, b) ==
    LET c == PyLess(b, a)
    IN  IF c = "True" THEN b ELSE IF c = "False" THEN a ELSE Raise(c)

IntLit(n)        == Num("int", n, 1)
FloatLit(n, d)   == Num("float", n, d)
DecimalLit(n, d) == Num("Decimal", n, d)

-----------------------------------------------------------------------------
(***************************************************************************)
(* Class attributes and the values the host can hand to the strategy.      *)
(***************************************************************************)
order_amount == DecimalLit(1, 100)

\* atr_multiplier = 1.2, min_spread = 0.0003, max_spread = 0.002
Configured ==
    [atr_multiplier |-> FloatLit(12, 10),
     min_spread     |-> FloatLit(3, 10000),
     max_spread     |-> FloatLit(2, 1000)]

\* Other settings of the three attributes: a zero multiplier, and max_spread
\* set below min_spread.
Configs ==
    { Configured,
      [Configured EXCEPT !.atr_multiplier = FloatLit(0, 1)],
      [Configured EXCEPT !.max_spread = FloatLit(2, 10000)] }

\* get_price_by_type: a Decimal; NaN while the order book has no price.
Prices == { NaN("Decimal"), DecimalLit(0, 1), DecimalLit(100, 1), DecimalLit(2000, 1) }

\* Last ATR_30 value: a float, NaN while the indicator has no value; None is
\* the value the guard of create_proposal tests for.
AtrValues ==
    { None, NaN("float"), FloatLit(0, 1), FloatLit(1, 10), FloatLit(8, 10),
      FloatLit(50, 3) }

TickSteps == {0, 14, 15}

-----------------------------------------------------------------------------
(***************************************************************************)
(* create_proposal                                                         *)
(***************************************************************************)
OrderCandidate(side, amount, price) ==
    [order_side |-> side, amount |-> amount, price |-> price]

\* atr is None or atr <= 0: "True", "False" or the exception raised.
AtrGuard(a) == IF a.ty = "NoneType" THEN "True" ELSE PyLeq(a, IntLit(0))

\* Lines 74-75: the volatility that enters the spread formula.
EffectiveAtr(ref_price, a, c) ==
    LET g == AtrGuard(a)
    IN  IF g = "True" THEN PyMul(ref_price, c.min_spread)
        ELSE IF g = "False" THEN a
        ELSE Raise(g)

\* Variants of the clamp of line 78: no clamp at all, and the floor applied
\* last.
Clamp_None(raw, c) == raw

Clamp_FloorLast(raw, c) == PyMax(PyMin(raw, c.max_spread), c.min_spread)

\* Line 78: min(max(Decimal(atr * multiplier) / ref_price, min_spread), max_spread)
Clamp(raw, c) == PyMin(PyMax(raw, c.min_spread), c.max_spread)

DynamicSpread(ref_price, a, c) ==
    Clamp(PyDiv(PyDecimal(PyMul(EffectiveAtr(ref_price, a, c), c.atr_multiplier)),
                ref_price), c)

\* Variant of line 81 with the sign of line 80.
AskPrice_Minus(ref_price, spread) ==
    PyMul(ref_price, PyDecimal(PySub(IntLit(1), spread)))

BidPrice(ref_price, spread) == PyMul(ref_price, PyDecimal(PySub(IntLit(1), spread)))
AskPrice(ref_price, spread) == PyMul(ref_price, PyDecimal(PyAdd(IntLit(1), spread)))

\* The result of a call: the exception raised ("" if none), the spread that
\* was computed and the list returned.
create_proposal(ref_price, a, c) ==
    LET s   == DynamicSpread(ref_price, a, c)
        bid == BidPrice(ref_price, s)
        ask == AskPrice(ref_price, s)
    IN  IF IsRaise(bid) THEN [exc |-> bid.exc, spread |-> None, orders |-> <<>>]
        ELSE IF IsRaise(ask) THEN [exc |-> ask.exc, spread |-> None, orders |-> <<>>]
        ELSE [exc |-> "", spread |-> s,
              orders |-> << OrderCandidate("BUY", order_amount, bid),
                            OrderCandidate("SELL", order_amount, ask) >>]

\* create_proposal on every input of the model, evaluated once.
Proposals ==
    [c \in Configs |-> [p \in Prices |-> [a \in AtrValues |-> create_proposal(p, a, c)]]]

(***************************************************************************)
(* adjust_proposal_to_budget: the budget checker, called with              *)
(* all_or_none = True, returns every candidate either as it is or with its *)
(* amount set to zero; enough[i] says whether the balance covers order i.  *)
(***************************************************************************)
adjust_proposal_to_budget(prop, enough) ==
    [i \in 1..Len(prop) |->
        IF enough[i] THEN prop[i] ELSE [prop[i] EXCEPT !.amount = DecimalLit(0, 1)]]

(***************************************************************************)
(* place_orders / place_order: one host call per candidate, sell or buy by *)
(* the candidate's side.  The host names the new order by side and time.   *)
(***************************************************************************)
\* Variant of place_order with the two sides exchanged.
place_order_Swapped(order, now) ==
    IF order.order_side = "BUY"
    THEN <<[op |-> "sell", id |-> <<"SELL", now>>, amount |-> order.amount,
            price |-> order.price]>>
    ELSE <<[op |-> "buy", id |-> <<"BUY", now>>, amount |-> order.amount,
            price |-> order.price]>>

place_order(order, now) ==
    IF order.order_side = "SELL"
    THEN <<[op |-> "sell", id |-> <<"SELL", now>>, amount |-> order.amount,
            price |-> order.price]>>
    ELSE IF order.order_side = "BUY"
    THEN <<[op |-> "buy", id |-> <<"BUY", now>>, amount |-> order.amount,
            price |-> order.price]>>
    ELSE <<>>

RECURSIVE place_orders(_, _)
place_orders(prop, now) ==
    IF prop = <<>> THEN <<>>
    ELSE place_order(Head(prop), now) \o place_orders(Tail(prop), now)

(***************************************************************************)
(* cancel_all_orders: one cancel per order of get_active_orders.           *)
(***************************************************************************)
RECURSIVE SetToSeq(_)
SetToSeq(S) ==
    IF S = {} THEN <<>>
    ELSE LET x == CHOOSE y \in S : TRUE IN <<x>> \o SetToSeq(S \ {x})

cancel_all_orders(orders) ==
    LET l == SetToSeq(orders)
    IN  [i \in 1..Len(l) |->
            [op |-> "cancel", id |-> l[i].client_order_id, amount |-> None,
             price |-> None]]

\* The orders the host tracks after a list of buy and sell calls: an order
\* of amount zero is not created.
Submitted(cs) ==
    { [client_order_id |-> cs[i].id,
       order_side      |-> cs[i].id[1],
       amount          |-> cs[i].amount,
       price           |-> cs[i].price] :
      i \in { j \in 1..Len(cs) : cs[j].op \in {"buy", "sell"} /\ cs[j].amount.q[1] > 0 } }

-----------------------------------------------------------------------------
(***************************************************************************)
(* State machine.                                                          *)
(***************************************************************************)
InitRest ==
    /\ current_timestamp = 0
    /\ create_timestamp = 0
    /\ candles_ready = FALSE
    /\ mid_price = DecimalLit(2000, 1)
    /\ atr = NaN("float")
    /\ active_orders = {}
    /\ tick_no = 0
    /\ outcome = "none"
    /\ calls = <<>>
    /\ dynamic_spread = None
    /\ proposal = <<>>
    /\ adjusted = <<>>
    /\ place_times = <<>>

Init == cfg = Configured /\ InitRest

InitAnyConfig == cfg \in Configs /\ InitRest

\* Variant of line 61 that forgets the refresh time.
NextCreateTimestamp_NoRefresh(now) == now

\* Value of create_timestamp at the end of a completed cycle (line 61).
NextCreateTimestamp(now) == now + order_refresh_time

\* The host clock moves on by dt and calls on_tick.
HostTick(dt) ==
    /\ tick_no < MaxTicks
    /\ tick_no' = tick_no + 1
    /\ current_timestamp' = current_timestamp + dt
    /\ UNCHANGED cfg

\* The tick made no call and computed nothing.
NothingDone ==
    /\ calls' = <<>>
    /\ dynamic_spread' = None
    /\ proposal' = <<>>
    /\ adjusted' = <<>>
    /\ UNCHANGED <<create_timestamp, active_orders, place_times>>

\* on_tick, line 53 false: nothing to do yet.  Neither the readiness flag
\* nor the market is read.
OnTickWait(dt) ==
    /\ HostTick(dt)
    /\ ~(create_timestamp <= current_timestamp')
    /\ outcome' = "wait"
    /\ NothingDone
    /\ UNCHANGED <<candles_ready, mid_price, atr>>

\* Variant of the not-ready return that restarts the refresh timer.
OnTickNotReady_RestartsTimer(dt) ==
    /\ HostTick(dt)
    /\ create_timestamp <= current_timestamp'
    /\ candles_ready' = FALSE
    /\ outcome' = "not_ready"
    /\ calls' = <<>>
    /\ dynamic_spread' = None
    /\ proposal' = <<>>
    /\ adjusted' = <<>>
    /\ create_timestamp' = NextCreateTimestamp(current_timestamp')
    /\ UNCHANGED <<active_orders, place_times, mid_price, atr>>

\* on_tick, line 54: the candle feed is not ready.
OnTickNotReady(dt) ==
    /\ HostTick(dt)
    /\ create_timestamp <= current_timestamp'
    /\ candles_ready' = FALSE
    /\ outcome' = "not_ready"
    /\ NothingDone
    /\ UNCHANGED <<mid_price, atr>>

\* on_tick, lines 57-58 with create_proposal raising: the feed is ready, the
\* mid price is p and the ATR is a.  The cancels have been sent and the
\* exception leaves on_tick before line 59.
OnTickRaised(dt, p, a) ==
    LET prop == Proposals[cfg][p][a]
    IN  /\ HostTick(dt)
        /\ create_timestamp <= current_timestamp'
        /\ prop.exc # ""
        /\ candles_ready' = TRUE
        /\ mid_price' = p
        /\ atr' = a
        /\ outcome' = prop.exc
        /\ calls' = cancel_all_orders(active_orders)
        /\ active_orders' = {}
        /\ dynamic_spread' = None
        /\ proposal' = <<>>
        /\ adjusted' = <<>>
        /\ UNCHANGED <<create_timestamp, place_times>>

\* on_tick, lines 57-61, a completed refresh cycle: the feed is ready, the
\* mid price is p, the ATR is a and enough[i] says whether the balance
\* covers candidate i.
OnTickCompleted(dt, p, a, enough) ==
    LET prop   == Proposals[cfg][p][a]
        adj    == adjust_proposal_to_budget(prop.orders, enough)
        placed == place_orders(adj, current_timestamp')
    IN  /\ HostTick(dt)
        /\ create_timestamp <= current_timestamp'
        /\ prop.exc = ""
        /\ candles_ready' = TRUE
        /\ mid_price' = p
        /\ atr' = a
        /\ outcome' = "done"
        /\ calls' = cancel_all_orders(active_orders) \o placed
        /\ active_orders' = Submitted(placed)
        /\ dynamic_spread' = prop.spread
        /\ proposal' = prop.orders
        /\ adjusted' = adj
        /\ create_timestamp' = NextCreateTimestamp(current_timestamp')
        /\ place_times' = IF placed = <<>> THEN place_times
                          ELSE Append(place_times, current_timestamp')

\* did_fill_order: the host drops the filled order from the active orders;
\* the handler itself only writes a log line and a notification.
did_fill_order(o) ==
    /\ o \in active_orders
    /\ active_orders' = active_orders \ {o}
    /\ UNCHANGED <<cfg, current_timestamp, create_timestamp,
                   candles_ready, mid_price, atr, tick_no, outcome, calls,
                   dynamic_spread, proposal, adjusted, place_times>>

Next ==
    \/ \E dt \in TickSteps : OnTickWait(dt)
    \/ \E dt \in TickSteps : OnTickNotReady(dt)
    \/ \E dt \in TickSteps, p \in Prices, a \in AtrValues : OnTickRaised(dt, p, a)
    \/ \E dt \in TickSteps, p \in Prices, a \in AtrValues,
          enough \in [1..2 -> BOOLEAN] : OnTickCompleted(dt, p, a, enough)
    \/ \E o \in active_orders : did_fill_order(o)

Spec == Init /\ [][Next]_vars

SpecAnyConfig == InitAnyConfig /\ [][Next]_vars

-----------------------------------------------------------------------------
(***************************************************************************)
(* Vocabulary of the properties.                                           *)
(***************************************************************************)
\* A step of the host calling on_tick.
IsTick == tick_no' # tick_no

\* The last on_tick call went past the readiness check (lines 57 onwards).
CycleEntered == outcome \notin {"none", "wait", "not_ready"}

PositivePrice(p) == p.ty = "Decimal" /\ ~p.nan /\ p.q[1] > 0

\* No usable price: NaN, zero or negative.
NoPrice(p) == p.nan \/ p.q[1] <= 0

\* A volatility that is a number >= 0, one that is a number > 0, and one that
\* is absent (None, NaN) or <= 0.
VolatilityNonNegative(a) == a.ty = "float" /\ ~a.nan /\ a.q[1] >= 0
VolatilityPositive(a)    == a.ty = "float" /\ ~a.nan /\ a.q[1] > 0
VolatilityMissing(a)     == a.ty = "NoneType" \/ a.nan \/ a.q[1] <= 0

IsSpread(s) == s.ty \in {"float", "Decimal"} /\ ~s.nan

MisconfiguredBounds == RatLess(cfg.max_spread.q, cfg.min_spread.q)

\* The quote computation of the specification on exact rationals.
RatMax(x, y) == IF RatLess(x, y) THEN y ELSE x
RatMin(x, y) == IF RatLess(y, x) THEN y ELSE x
ReferenceSpread(r, v, c) ==
    RatMin(RatMax(RatDiv(RatMul(v, c.atr_multiplier.q), r), c.min_spread.q),
           c.max_spread.q)
ReferenceBid(r, sp) == RatMul(r, RatSub(<<1, 1>>, sp))
ReferenceAsk(r, sp) == RatMul(r, RatAdd(<<1, 1>>, sp))

IsQuote(o, side, price) ==
    /\ o.order_side = side
    /\ o.amount = order_amount
    /\ o.price.ty = "Decimal"
    /\ ~o.price.nan
    /\ o.price.q = price

Cancels == { i \in 1..Len(calls) : calls[i].op = "cancel" }
Submits == { i \in 1..Len(calls) : calls[i].op \in {"buy", "sell"} }

-----------------------------------------------------------------------------
(***************************************************************************)
(* C1.  For every reference price > 0 and every volatility >= 0, a refresh *)
(* cycle prices its two quotes with a spread in [min_spread, max_spread].  *)
(* Stated as the claim states it, for volatility 0 as well.                *)
(***************************************************************************)
C1_SpreadWithinBounds ==
    (CycleEntered /\ PositivePrice(mid_price) /\ VolatilityNonNegative(atr))
        => /\ outcome = "done"
           /\ IsSpread(dynamic_spread)
           /\ RatLeq(cfg.min_spread.q, dynamic_spread.q)
           /\ RatLeq(dynamic_spread.q, cfg.max_spread.q)

(***************************************************************************)
(* C2.  If the volatility is absent or <= 0 and the reference price is     *)
(* > 0, the spread equals min_spread and the quotes are                    *)
(* reference_price * (1 -+ min_spread).                                    *)
(***************************************************************************)
C2_FallbackSpreadIsMin ==
    (CycleEntered /\ PositivePrice(mid_price) /\ VolatilityMissing(atr))
        => /\ IsSpread(dynamic_spread)
           /\ dynamic_spread.q = cfg.min_spread.q
           /\ Len(proposal) = 2
           /\ proposal[1].price.q = ReferenceBid(mid_price.q, cfg.min_spread.q)
           /\ proposal[2].price.q = ReferenceAsk(mid_price.q, cfg.min_spread.q)

(***************************************************************************)
(* C3.  A missing or invalid volatility is never an error: with a          *)
(* reference price > 0 the cycle completes, create_proposal returns two    *)
(* quotes, both are submitted and create_timestamp is advanced.            *)
(***************************************************************************)
C3_MissingVolatilityNoError ==
    (CycleEntered /\ PositivePrice(mid_price) /\ VolatilityMissing(atr))
        => /\ outcome = "done"
           /\ Len(proposal) = 2
           /\ Cardinality(Submits) = 2
           /\ create_timestamp = current_timestamp + order_refresh_time

(***************************************************************************)
(* C4.  A tick that finds the reference price unavailable or <= 0 signals  *)
(* an error, prices and places nothing, and leaves the active orders and   *)
(* create_timestamp as they were.  Stated for a volatility > 0, where the   *)
(* fallback of lines 74-75 plays no part.                                  *)
(***************************************************************************)
C4_Step ==
    (IsTick /\ CycleEntered' /\ NoPrice(mid_price') /\ VolatilityPositive(atr'))
        => /\ outcome' # "done"
           /\ proposal' = <<>>
           /\ \A i \in 1..Len(calls') : calls'[i].op \notin {"buy", "sell"}
           /\ UNCHANGED <<active_orders, create_timestamp>>

C4_NoPriceSkipsCycle == [][C4_Step]_vars

(***************************************************************************)
(* C5.  As claimed: with max_spread below min_spread the resulting spread  *)
(* is min_spread.                                                          *)
(***************************************************************************)
C5_MinIsFloor_Original ==
    (outcome = "done" /\ MisconfiguredBounds)
        => /\ IsSpread(dynamic_spread)
           /\ dynamic_spread.q = cfg.min_spread.q

(***************************************************************************)
(* C5, amended.  With max_spread below min_spread every spread that        *)
(* create_proposal computes is max_spread, hence below min_spread: the     *)
(* outer min makes max_spread the ceiling, min_spread is no floor.         *)
(***************************************************************************)
C5_MaxIsCeiling ==
    (outcome = "done" /\ MisconfiguredBounds)
        => /\ IsSpread(dynamic_spread)
           /\ dynamic_spread.q = cfg.max_spread.q
           /\ RatLess(dynamic_spread.q, cfg.min_spread.q)
           /\ proposal[1].price.q = ReferenceBid(mid_price.q, cfg.max_spread.q)
           /\ proposal[2].price.q = ReferenceAsk(mid_price.q, cfg.max_spread.q)

C5_Witness ==
    /\ outcome = "done"
    /\ MisconfiguredBounds
    /\ PositivePrice(mid_price)
    /\ VolatilityPositive(atr)
    /\ dynamic_spread.q = <<1, 5000>>

C8_Step ==
    IsTick
        => /\ (calls' # <<>>) => create_timestamp <= current_timestamp'
           /\ (outcome' = "done")
                => create_timestamp' = current_timestamp' + order_refresh_time
           /\ (outcome' # "done") => create_timestamp' = create_timestamp
           /\ \A i, j \in 1..Len(place_times') :
                i < j => place_times'[j] - place_times'[i] >= order_refresh_time

C8_RefreshCadence == [][C8_Step]_vars

C8_Witness ==
    /\ Len(place_times) >= 2
    /\ place_times[2] - place_times[1] = order_refresh_time
    /\ outcome = "done"

(***************************************************************************)
(* C9.  A tick made while the candle feed is not ready changes nothing: no *)
(* cancel, no proposal, no order, create_timestamp unchanged; so the next  *)
(* tick is not made to wait.                                               *)
(***************************************************************************)
C9_Step ==
    /\ (IsTick /\ outcome' = "not_ready")
         => /\ calls' = <<>>
            /\ proposal' = <<>>
            /\ UNCHANGED <<active_orders, create_timestamp, place_times>>
    /\ (IsTick /\ outcome = "not_ready") => outcome' # "wait"

C10_Step ==
    (IsTick /\ CycleEntered')
        => /\ \A o \in active_orders :
                \E i \in Cancels' : calls'[i].id = o.client_order_id
           /\ Cardinality(Cancels') = Cardinality(active_orders)
           /\ \A i \in Cancels', j \in Submits' : i < j
           /\ Cardinality({ j \in Submits' : calls'[j].op = "buy" }) <= 1
           /\ Cardinality({ j \in Submits' : calls'[j].op = "sell" }) <= 1
           /\ Cardinality(Submits') = Len(adjusted')
           /\ \A k \in 1..Len(adjusted') :
                LET c == calls'[Cardinality(Cancels') + k]
                IN  /\ c.op = (IF adjusted'[k].order_side = "BUY" THEN "buy" ELSE "sell")
                    /\ c.amount = adjusted'[k].amount
                    /\ c.price = adjusted'[k].price

C10_CancelThenSubmit == [][C10_Step]_vars

C10_Witness ==
    /\ outcome = "done"
    /\ Len(calls) = 4
    /\ calls[1].op = "cancel"
    /\ calls[2].op = "cancel"
    /\ calls[3].op = "buy"
    /\ calls[4].op = "sell"
    /\ calls[4].amount.q = <<0, 1>>

=============================================================================
